---------------------------- MODULE Spec2Model ----------------------------
(***************************************************************************)
(* A model of trend_estimation.py: the autocovariance and integral         *)
(* timescale estimators, the effective sample size, the analytic           *)
(* confidence limit of main_te, the from-scratch Theil-Sen fit, the Monte  *)
(* Carlo trend simulator and the percentile extractor of calc_trend.       *)
(*                                                                         *)
(* Numbers.  A number is a pair <<n, d>>.  With d > 0 it is the rational   *)
(* n/d in lowest terms; <<0,0>> is NaN, <<1,0>> is +inf and <<-1,0>> is    *)
(* -inf, the three non-finite results of a numpy division.  Arithmetic is  *)
(* exact, except where rounding decides a claim: in effective_sample_size, *)
(* in the second model of the integral timescale (FloatBits significant    *)
(* bits) and in the cumulative fractions of calc_trend (CdfBits bits),     *)
(* results are rounded to nearest, ties to even, the way a binary          *)
(* floating-point unit rounds them.                                        *)
(***************************************************************************)
EXTENDS Integers, Sequences, FiniteSets, TLC

VARIABLES
    \* ---- C(k, y): one call
    acv_pc,        \* "call" before the call, "ret" after it, "idle" elsewhere
    acv_k,         \* the lag argument
    acv_y,         \* the series argument
    acv_ret,       \* what the call produced: [err, val]
    \* ---- TheilSen_Cummins(data): one call
    ts_pc,         \* "call", "ret" or "idle"
    ts_data,       \* the M x 2 data matrix, a sequence of rows <<x, y>>
    ts_ret,        \* what the call made last returned and whether it printed
    \* ---- integral_timescale_discrete(dtau, y, m): a call and a second call
    \* on the shifted series or the scaled lag step
    its_pc,        \* "call", "ret" or "idle"
    its_args,      \* [dtau, y, m, p], p the shift c or the factor s
    its_ret,       \* [kind, first, second] as computed in floating point
    its_exact,     \* [first, second] in exact arithmetic
    \* ---- effective_sample_size(N, dt, T): one call
    ess_pc,        \* "call", "ret" or "idle"
    ess_args,      \* <<N, dt, T>>
    ess_ret,       \* the value returned
    \* ---- main_te(compute_cis, delta_tau_factor, nlag_vals_to_use)
    te_pc,         \* "loop" while stations remain, "done", "failed" or "idle"
    te_cfg,        \* [compute_cis, delta_tau_factor, nlag_vals_to_use]
    te_i,          \* index of the next station (file) to process
    te_ESS,        \* ESS of the station processed last
    df_res_te,     \* the result rows, one per station processed
    \* ---- calc_trend(max_siml, ncores_to_use, sen_flag)
    ct_pc,               \* "loop", "done", "failed" or "idle"
    ct_cfg,              \* the arguments [max_siml, sen_flag]
    ct_i,                \* index of the next station (file) to process
    ct_siml_trends,      \* siml_trends of the station processed last, as
                         \* the number of trials that gave each slope
    count,               \* np.histogram's counts, bin 0 first
    bin_edges,           \* np.histogram's edges, nbins + 1 of them
    temp_conf_int_low,   \* the locals of lines 583, 585 and 587; Unbound
    temp_conf_int_high,  \* until first assigned
    temp_conf_int_95,
    ct_set,              \* which of low and high the last pass assigned
    df_res,              \* the result rows, one per station processed
    \* ---- monte_carlo_trend(max_siml, maxlag, time, data_record, sen_flag)
    mc_pc,         \* "loop", "returned", "aborted", "raised" or "idle"
    mc_cfg,        \* the arguments [max_siml, sen_flag, data_record]
    nsim,          \* the trial the loop of line 412 runs next
    rng,           \* the state of numpy's global generator
    res_coef,      \* res.coef_ of the library fit made last
    siml_trends,   \* the output array, in units of sqrt(2)
    mc_warned,     \* whether line 439 printed res.coef_
    mc_ret         \* "pending", "arrays" (line 472), "None" (line 440) or
                   \* the exception that ended the run

acvVars == <<acv_pc, acv_k, acv_y, acv_ret>>
tsVars == <<ts_pc, ts_data, ts_ret>>
essVars == <<ess_pc, ess_args, ess_ret>>
teVars == <<te_pc, te_cfg, te_i, te_ESS, df_res_te>>
ctVars == <<ct_pc, ct_cfg, ct_i, ct_siml_trends, count, bin_edges,
            temp_conf_int_low, temp_conf_int_high, temp_conf_int_95, ct_set,
            df_res>>

itsVars == <<its_pc, its_args, its_ret, its_exact>>
mcVars == <<mc_pc, mc_cfg, nsim, rng, res_coef, siml_trends, mc_warned, mc_ret>>

vars == <<acvVars, tsVars, essVars, teVars, ctVars, mcVars, itsVars>>

-----------------------------------------------------------------------------
(* Bounds of the model *)

\* longest series handed to C and to integral_timescale_discrete
MaxN == 3
\* series values are drawn from -MaxVal..MaxVal
MaxVal == 1
\* most observations in a data matrix handed to TheilSen_Cummins
MaxObs == 3
\* the coordinates of an observation are drawn from 0..MaxCoord
MaxCoord == 2
\* significant bits of the floating-point format of effective_sample_size
FloatBits == 4
\* largest sample count handed to effective_sample_size on its own
MaxCount == 8
\* stations (data files) main_te iterates over
NStationsTe == 2
\* largest nlag_vals_to_use given to main_te
MaxLagVals == 3
\* stations (data files) calc_trend iterates over
NStations == 2
\* simulated slopes are drawn from 0..MaxSlope
MaxSlope == 2
\* trials of a station that give a slope other than the most frequent one:
\* at most MaxFew on either side of it
MaxFew == 2
\* calc_trend is given max_siml = SmallSiml or 2 * SmallSiml - 1 (never
\* None, which stands for 500 trials)
SmallSiml == 41
MaxPts == 4
MaxTrials == 3
MaxCoef == 2
RngStates == 8
MaxShift == 3
CdfBits == 10

-----------------------------------------------------------------------------
(* Constants of the program *)

\* line 564: the bin count from this many trials on
ManySiml == 500
\* line 564: the two bin counts
ManyBins == 100
FewBins == 5

-----------------------------------------------------------------------------
(* Exact arithmetic on numbers *)

Abs(a) == IF a < 0 THEN -a ELSE a

Sign(a) == IF a < 0 THEN -1 ELSE IF a = 0 THEN 0 ELSE 1

RECURSIVE Gcd(_, _)
Gcd(a, b) == IF b = 0 THEN a ELSE Gcd(b, a % b)

\* n/d as a number; d = 0 gives NaN or a signed infinity, as numpy does
Rat(n, d) ==
    IF d = 0 THEN <<Sign(n), 0>>
    ELSE LET g == Gcd(Abs(n), Abs(d))
             s == IF d < 0 THEN -1 ELSE 1
         IN  <<(s * n) \div g, (s * d) \div g>>

RInt(a) == <<a, 1>>
NaN == <<0, 0>>
Zero == <<0, 1>>

IsFinite(q) == q[2] # 0

\* numpy arithmetic: NaN propagates, inf - inf and 0 * inf are NaN
RAdd(p, q) ==
    IF p[2] = 0 /\ q[2] = 0 THEN (IF p = q THEN p ELSE NaN)
    ELSE Rat(p[1] * q[2] + q[1] * p[2], p[2] * q[2])
RNeg(p) == <<-p[1], p[2]>>
RSub(p, q) == RAdd(p, RNeg(q))
RMul(p, q) == Rat(p[1] * q[1], p[2] * q[2])
\* a numpy division: x/0 is NaN or a signed infinity, with a warning
RDiv(p, q) ==
    IF q[1] = 0 /\ q[2] # 0 THEN <<Sign(p[1]), 0>>
    ELSE Rat(p[1] * q[2] * Sign(q[1]), p[2] * Abs(q[1]))
\* comparisons: false when either side is NaN
RLess(p, q) == p # NaN /\ q # NaN /\ p # q /\ p[1] * q[2] < q[1] * p[2]
RLeq(p, q) == p # NaN /\ q # NaN /\ (p = q \/ p[1] * q[2] < q[1] * p[2])

RECURSIVE SeqSum(_)
SeqSum(s) == IF s = <<>> THEN 0 ELSE Head(s) + SeqSum(Tail(s))

\* what a call produced: a value, or the exception that ended it
Ok(v) == [err |-> "none", val |-> v]
Raise(e) == [err |-> e, val |-> NaN]
NoRet == [err |-> "pending", val |-> NaN]

-----------------------------------------------------------------------------
(* Python sequence indexing: y[j] *)

\* y[j] of a sequence of length N: j in 0..N-1 counts from the front, j in
\* -N..-1 from the back, anything else raises IndexError
InRange(y, j) == j >= -Len(y) /\ j < Len(y)
PyIndex(y, j) == IF j >= 0 THEN y[j + 1] ELSE y[Len(y) + j + 1]

\* no mean taken off
Mean_zero(y) == Zero

\* np.mean(y)
Mean(y) == Rat(SeqSum(y), Len(y))

-----------------------------------------------------------------------------
(* C(k, y): autocovariance, trend_estimation.py lines 40-57 *)

\* the loop of lines 53-54 from index i on, C_k being acc so far
RECURSIVE CLoop(_, _, _, _)
CLoop(i, acc, k, y) ==
    IF i >= Len(y) - k THEN Ok(acc)
    ELSE IF ~InRange(y, i) \/ ~InRange(y, i + k) THEN Raise("IndexError")
    ELSE CLoop(i + 1,
               RAdd(acc, RMul(RSub(RInt(PyIndex(y, i)), Mean(y)),
                              RSub(RInt(PyIndex(y, i + k)), Mean(y)))),
               k, y)

\* line 55: C_k *= 1 / (N - 1 - k), the reciprocal of a Python int
CScale(r, k, y) ==
    IF r.err # "none" THEN r
    ELSE IF Len(y) - 1 - k = 0 THEN Raise("ZeroDivisionError")
    ELSE Ok(RMul(r.val, Rat(1, Len(y) - 1 - k)))

\* the loop started at i = 1, as the textbook indexes it
C_from1(k, y) == CScale(CLoop(1, Zero, k, y), k, y)

\* the loop bounded by the size of the lag instead of the lag
C_abslag(k, y) == CScale(CLoop(0, Zero, Abs(k), y), k, y)

C(k, y) == CScale(CLoop(0, Zero, k, y), k, y)

-----------------------------------------------------------------------------
(* np.median *)

\* s[np.isfinite(s)]: the finite elements of s, in order
RECURSIVE OnlyFinite(_)
OnlyFinite(s) ==
    IF s = <<>> THEN <<>>
    ELSE IF IsFinite(Head(s)) THEN <<Head(s)>> \o OnlyFinite(Tail(s))
    ELSE OnlyFinite(Tail(s))

\* s[~np.isnan(s)]: the elements of s other than NaN, in order
RECURSIVE OnlyNotNaN(_)
OnlyNotNaN(s) ==
    IF s = <<>> THEN <<>>
    ELSE IF Head(s) # NaN THEN <<Head(s)>> \o OnlyNotNaN(Tail(s))
    ELSE OnlyNotNaN(Tail(s))

CountLess(s, e) == Cardinality({i \in 1..Len(s) : RLess(s[i], e)})
CountLeq(s, e) == Cardinality({i \in 1..Len(s) : RLeq(s[i], e)})

\* the element of rank r (from 0) of s in sorted order
Kth(s, r) ==
    LET i == CHOOSE j \in 1..Len(s) : CountLess(s, s[j]) <= r /\ r < CountLeq(s, s[j])
    IN  s[i]

HasNaN(s) == \E i \in 1..Len(s) : s[i] = NaN

\* np.median(s): NaN for an empty array or one holding a NaN, the middle
\* element, or the mean of the two middle elements
Median(s) ==
    IF s = <<>> \/ HasNaN(s) THEN NaN
    ELSE IF Len(s) % 2 = 1 THEN Kth(s, (Len(s) - 1) \div 2)
    ELSE RDiv(RAdd(Kth(s, Len(s) \div 2 - 1), Kth(s, Len(s) \div 2)), RInt(2))

-----------------------------------------------------------------------------
(* TheilSen_Cummins(data), trend_estimation.py lines 338-367 *)

\* np.array([x, y]).T: the rows <<x[i], y[i]>> of two arrays of numbers
Rows(x, y) == [i \in 1..Len(x) |-> <<x[i], y[i]>>]

\* a matrix of integers as a matrix of numbers
AsNumbers(data) == [i \in 1..Len(data) |-> <<RInt(data[i][1]), RInt(data[i][2])>>]

\* lines 356-358: CC[i, j] = (y[i] - y[j]) / (x[i] - x[j]) for j >= i, NaN
\* below the diagonal
SlopeMatrix(data) ==
    [i \in 1..Len(data), j \in 1..Len(data) |->
        IF j >= i THEN RDiv(RSub(data[i][2], data[j][2]), RSub(data[i][1], data[j][1]))
        ELSE NaN]

\* the entries of the matrix row by row, as CC[k] lists them
RECURSIVE Flatten(_, _, _)
Flatten(CC, n, pos) ==
    IF pos >= n * n THEN <<>>
    ELSE <<CC[(pos \div n) + 1, (pos % n) + 1]>> \o Flatten(CC, n, pos + 1)

\* line 360 with ~np.isnan in place of np.isfinite
FiniteSlopes_keepinf(CC, n) == OnlyNotNaN(Flatten(CC, n, 0))

\* lines 360-361: CC[np.isfinite(CC)]
FiniteSlopes(CC, n) == OnlyFinite(Flatten(CC, n, 0))

\* lines 363-365: data[kd, 1] - m * data[kd, 0], kd keeping the rows of
\* finite x
RECURSIVE Offsets(_, _)
Offsets(data, m) ==
    IF data = <<>> THEN <<>>
    ELSE (IF IsFinite(Head(data)[1])
          THEN <<RSub(Head(data)[2], RMul(m, Head(data)[1]))>> ELSE <<>>)
         \o Offsets(Tail(data), m)

NoFit == [kind |-> "None", printed |-> TRUE, m |-> NaN, bb |-> NaN, CC |-> <<>>]
TsPending == [kind |-> "pending", printed |-> FALSE, m |-> NaN, bb |-> NaN, CC |-> <<>>]

\* lines 354-367 without the test of lines 349-352
TheilSen_Cummins_noguard(data) ==
    LET CC == SlopeMatrix(data)
        m == Median(FiniteSlopes(CC, Len(data)))
    IN  [kind |-> "fit", printed |-> FALSE, m |-> m,
         bb |-> Median(Offsets(data, m)), CC |-> CC]

\* the whole function on a two-column matrix: lines 349-352 reject fewer than
\* two observations, printing and returning None
TheilSen_Cummins(data) ==
    IF Len(data) < 2 THEN NoFit
    ELSE LET CC == SlopeMatrix(data)
             m == Median(FiniteSlopes(CC, Len(data)))
         IN  [kind |-> "fit", printed |-> FALSE, m |-> m,
              bb |-> Median(Offsets(data, m)), CC |-> CC]

-----------------------------------------------------------------------------
(* Binary floating point: rounding to FloatBits significant bits *)

RECURSIVE Pow2(_)
Pow2(n) == IF n = 0 THEN 1 ELSE 2 * Pow2(n - 1)

\* n/d >= 0 rounded to the nearest integer, ties to the even one
RoundHalfEven(n, d) ==
    LET f == n \div d
        r == n % d
    IN  IF 2 * r < d THEN f
        ELSE IF 2 * r > d THEN f + 1
        ELSE IF f % 2 = 0 THEN f ELSE f + 1

\* n/d > 0 scaled by powers of two into [lo, 2 lo), lo = 2^(bits-1), and
\* rounded there: the integer and the number of doublings made
RECURSIVE ScaledRound(_, _, _, _)
ScaledRound(lo, n, d, e) ==
    IF n < lo * d THEN ScaledRound(lo, 2 * n, d, e + 1)
    ELSE IF n >= 2 * lo * d THEN ScaledRound(lo, n, 2 * d, e - 1)
    ELSE <<RoundHalfEven(n, d), e>>

\* r * 2^(-e)
Unscaled(r, e) == IF e >= 0 THEN Rat(r, 2 ^ e) ELSE RInt(r * 2 ^ (-e))

\* n/d > 0 rounded to a significand of the given number of bits
RoundMagTo(bits, n, d) ==
    Unscaled(ScaledRound(2 ^ (bits - 1), n, d, 0)[1],
             ScaledRound(2 ^ (bits - 1), n, d, 0)[2])

\* q rounded to a significand of the given number of bits
FlTo(bits, q) ==
    IF ~IsFinite(q) \/ q[1] = 0 THEN q
    ELSE IF q[1] < 0 THEN RNeg(RoundMagTo(bits, -q[1], q[2]))
    ELSE RoundMagTo(bits, q[1], q[2])

\* the floating-point number nearest to q: FloatBits significant bits (no
\* overflow or underflow at these magnitudes)
Fl(q) == FlTo(FloatBits, q)

-----------------------------------------------------------------------------
(* integral_timescale_discrete(dtau, y, m), trend_estimation.py lines 60-77 *)

\* lines 72-74 from lag k on, T being acc so far; an exception of C ends it
RECURSIVE ItsLoop(_, _, _, _, _)
ItsLoop(k, acc, dtau, y, m) ==
    IF k >= m - 1 THEN Ok(acc)
    ELSE LET c1 == C(k + 1, y)
             c0 == C(k, y)
         IN  IF c1.err # "none" THEN c1
             ELSE IF c0.err # "none" THEN c0
             ELSE ItsLoop(k + 1,
                          RAdd(acc, RMul(RDiv(dtau, RInt(2)), RAdd(c1.val, c0.val))),
                          dtau, y, m)

\* line 75: T *= 2 / C(0, y), a numpy division (inf or NaN when C(0, y) = 0)
integral_timescale_discrete(dtau, y, m) ==
    LET T == ItsLoop(0, Zero, dtau, y, m)
        c == C(0, y)
    IN  IF T.err # "none" THEN T
        ELSE IF c.err # "none" THEN c
        ELSE Ok(RMul(T.val, RDiv(RInt(2), c.val)))

-----------------------------------------------------------------------------
(* C and integral_timescale_discrete as a floating-point unit evaluates
   them: the same statements, the result of every operation rounded *)

\* np.mean(y): the running sum, then the division
RECURSIVE FlSum(_, _)
FlSum(y, acc) ==
    IF y = <<>> THEN acc ELSE FlSum(Tail(y), Fl(RAdd(acc, RInt(Head(y)))))
FlMean(y) == Fl(RDiv(FlSum(y, Zero), RInt(Len(y))))

\* lines 53-54
RECURSIVE FlCLoop(_, _, _, _)
FlCLoop(i, acc, k, y) ==
    IF i >= Len(y) - k THEN Ok(acc)
    ELSE IF ~InRange(y, i) \/ ~InRange(y, i + k) THEN Raise("IndexError")
    ELSE FlCLoop(i + 1,
                 Fl(RAdd(acc, Fl(RMul(Fl(RSub(RInt(PyIndex(y, i)), FlMean(y))),
                                      Fl(RSub(RInt(PyIndex(y, i + k)), FlMean(y))))))),
                 k, y)

\* line 55
FlCScale(r, k, y) ==
    IF r.err # "none" THEN r
    ELSE IF Len(y) - 1 - k = 0 THEN Raise("ZeroDivisionError")
    ELSE Ok(Fl(RMul(r.val, Fl(Rat(1, Len(y) - 1 - k)))))

FlC(k, y) == FlCScale(FlCLoop(0, Zero, k, y), k, y)

\* lines 72-74
RECURSIVE FlItsLoop(_, _, _, _, _)
FlItsLoop(k, acc, dtau, y, m) ==
    IF k >= m - 1 THEN Ok(acc)
    ELSE LET c1 == FlC(k + 1, y)
             c0 == FlC(k, y)
         IN  IF c1.err # "none" THEN c1
             ELSE IF c0.err # "none" THEN c0
             ELSE FlItsLoop(k + 1,
                            Fl(RAdd(acc, Fl(RMul(Fl(RDiv(dtau, RInt(2))),
                                                 Fl(RAdd(c1.val, c0.val)))))),
                            dtau, y, m)

\* lines 69-77
FlIts(dtau, y, m) ==
    LET T == FlItsLoop(0, Zero, dtau, y, m)
        c == FlC(0, y)
    IN  IF T.err # "none" THEN T
        ELSE IF c.err # "none" THEN c
        ELSE Ok(Fl(RMul(T.val, Fl(RDiv(RInt(2), c.val)))))

\* y + c
Shifted(y, c) == [i \in 1..Len(y) |-> y[i] + c]

\* s times the result of a call
TimesResult(s, r) == IF r.err # "none" THEN r ELSE Ok(RMul(s, r.val))
FlTimesResult(s, r) == IF r.err # "none" THEN r ELSE Ok(Fl(RMul(s, r.val)))

-----------------------------------------------------------------------------
(* effective_sample_size(N, dt, T), trend_estimation.py lines 80-90 *)

\* line 90: N * dt / T, the product rounded, then the quotient rounded
effective_sample_size(N, dt, T) == Fl(RDiv(Fl(RMul(N, dt)), T))

-----------------------------------------------------------------------------
(* The analytic confidence limit, trend_estimation.py lines 107-150 *)

RECURSIVE RSum(_)
RSum(s) == IF s = <<>> THEN Zero ELSE RAdd(Head(s), RSum(Tail(s)))

RMean(x) == RDiv(RSum(x), RInt(Len(x)))

Sq(q) == RMul(q, q)

\* sum((a - b) ** 2) of two arrays of one length
SumSqDiff(a, b) == RSum([i \in 1..Len(a) |-> Sq(RSub(a[i], b[i]))])

\* lines 115-116: s_eta squared, 1 / (N - 2) being a Python int division
standard_error_of_estimate(y, y_est) ==
    IF Len(y) - 2 = 0 THEN Raise("ZeroDivisionError")
    ELSE Ok(RMul(Rat(1, Len(y) - 2), SumSqDiff(y, y_est)))

\* lines 128-130: s_x squared
std_dev_x(x) ==
    IF Len(x) - 1 = 0 THEN Raise("ZeroDivisionError")
    ELSE Ok(RMul(Rat(1, Len(x) - 1),
                 SumSqDiff(x, [i \in 1..Len(x) |-> RMean(x)])))

\* lines 144-150: the limit s_eta * t.ppf(0.975, df) / (sqrt(root) * s_x),
\* kept as its four arguments: the t quantile and the square roots are not
\* evaluated (s_eta and s_x are carried squared)
conf_limit(s_eta, N_star, s_x) ==
    [s_eta2 |-> s_eta, tdf |-> RSub(N_star, RInt(2)),
     root |-> RSub(N_star, RInt(1)), s_x2 |-> s_x]

\* the fitted line through the means xb, yb with the given slope
OlsLine(x, xb, yb, slope) ==
    [slope |-> slope, intercept |-> RSub(yb, RMul(slope, xb)),
     fittedvalues |-> [i \in 1..Len(x) |->
                          RAdd(RSub(yb, RMul(slope, xb)), RMul(slope, x[i]))]]

OlsFromMeans(x, y, xb, yb) ==
    OlsLine(x, xb, yb,
            RDiv(RSum([i \in 1..Len(x) |-> RMul(RSub(x[i], xb), RSub(y[i], yb))]),
                 RSum([i \in 1..Len(x) |-> Sq(RSub(x[i], xb))])))

\* sm.OLS(y, X).fit() on 'Anomaly ~ Date': slope, intercept, fitted values
OlsFit(x, y) == OlsFromMeans(x, y, RMean(x), RMean(y))

-----------------------------------------------------------------------------
(* The percentile extractor of calc_trend, trend_estimation.py lines 562-587 *)

Unbound == <<0, 0, 0>>

\* the slopes that occur in a bag of slopes
Support(bag) == {v \in DOMAIN bag : bag[v] > 0}
SetMin(S) == CHOOSE v \in S : \A w \in S : v <= w
SetMax(S) == CHOOSE v \in S : \A w \in S : w <= v

\* np.histogram's range: (min, max), widened by 0.5 on both sides when all
\* values are equal
HistLo(bag) ==
    IF SetMin(Support(bag)) = SetMax(Support(bag))
    THEN Rat(2 * SetMin(Support(bag)) - 1, 2) ELSE RInt(SetMin(Support(bag)))
HistHi(bag) ==
    IF SetMin(Support(bag)) = SetMax(Support(bag))
    THEN Rat(2 * SetMax(Support(bag)) + 1, 2) ELSE RInt(SetMax(Support(bag)))

\* floor of a number >= 0
Floor(q) == q[1] \div q[2]

\* the bin of value v: equal-width bins, the last one closed on the right
BinOf(v, lo, hi, nbins) ==
    LET k == Floor(RDiv(RMul(RSub(RInt(v), lo), RInt(nbins)), RSub(hi, lo)))
    IN  IF k = nbins THEN nbins - 1 ELSE k

RECURSIVE BagCount(_, _)
\* the number of trials whose slope lies in S
BagCount(bag, S) ==
    IF S = {} THEN 0
    ELSE LET v == CHOOSE w \in S : TRUE
         IN  bag[v] + BagCount(bag, S \ {v})

\* the counts of the bins between lo and hi; entry k + 1 is bin k
CountsIn(bag, lo, hi, nbins) ==
    [k \in 1..nbins |->
        BagCount(bag, {v \in Support(bag) : BinOf(v, lo, hi, nbins) = k - 1})]

\* line 570: count of np.histogram(siml_trends, bins=nbins)
HistCount(bag, nbins) == CountsIn(bag, HistLo(bag), HistHi(bag), nbins)

\* nbins + 1 equally spaced edges from lo to hi
EdgesIn(lo, hi, nbins) ==
    [k \in 1..(nbins + 1) |->
        RAdd(lo, RDiv(RMul(RInt(k - 1), RSub(hi, lo)), RInt(nbins)))]

\* line 570: bin_edges of np.histogram(siml_trends, bins=nbins)
HistEdges(bag, nbins) == EdgesIn(HistLo(bag), HistHi(bag), nbins)

\* line 564
NBins(max_siml) == IF max_siml >= ManySiml THEN ManyBins ELSE FewBins

\* sum(count[:k] / N_input): the k quotients of the bins before bin k, each
\* rounded, added up one after the other, each sum rounded (CdfBits
\* significant bits)
RECURSIVE CdfSum(_, _, _)
CdfSum(cnt, k, total) ==
    IF k = 0 THEN Zero
    ELSE FlTo(CdfBits, RAdd(CdfSum(cnt, k - 1, total),
                            FlTo(CdfBits, Rat(cnt[k], total))))

\* N[k] as sum(count[:k+1] / N_input): the bin k itself counted
CdfAt_inclusive(cnt, k, total) == CdfSum(cnt, k + 1, total)

\* N[k] = sum(count[:k] / N_input)
CdfAt(cnt, k, total) == CdfSum(cnt, k, total)

CdfOf(cnt, total) == [k \in 1..Len(cnt) |-> CdfAt(cnt, k - 1, total)]

\* lines 571-574: N[k] = sum(count[:k] / N_input)
Cdf(cnt) == CdfOf(cnt, SeqSum(cnt))

\* the literals 0.025 and 0.975 as floating-point numbers
alim_low == FlTo(CdfBits, Rat(25, 1000))
alim_high == FlTo(CdfBits, Rat(975, 1000))

\* 0.5 * (bin_edges[n] + bin_edges[n+1])
MidPoint(edges, n) == RMul(Rat(1, 2), RAdd(edges[n + 1], edges[n + 2]))

\* lines 581-583 from bin n on: the value of temp_conf_int_low after the
\* scan, cur being its value so far
RECURSIVE ScanLow(_, _, _, _)
ScanLow(n, cur, N, edges) ==
    IF n >= Len(N) - 1 THEN cur
    ELSE ScanLow(n + 1,
                 IF RLess(N[n + 1], alim_low) /\ RLeq(alim_low, N[n + 2])
                 THEN MidPoint(edges, n) ELSE cur,
                 N, edges)

\* lines 581-585 from bin n on, for temp_conf_int_high
RECURSIVE ScanHigh(_, _, _, _)
ScanHigh(n, cur, N, edges) ==
    IF n >= Len(N) - 1 THEN cur
    ELSE ScanHigh(n + 1,
                  IF RLeq(N[n + 1], alim_high) /\ RLess(alim_high, N[n + 2])
                  THEN MidPoint(edges, n) ELSE cur,
                  N, edges)

\* the two locals after the loop of line 581, which starts from the values
\* the previous pass of the station loop left in them
NewLow(cur, N, edges) == ScanLow(0, cur, N, edges)
NewHigh(cur, N, edges) == ScanHigh(0, cur, N, edges)

\* line 587: 0.5 * (-low + high); a local never assigned raises
HalfWidth(low, high) ==
    IF low = Unbound \/ high = Unbound THEN Raise("UnboundLocalError")
    ELSE Ok(RMul(Rat(1, 2), RAdd(RNeg(low), high)))

-----------------------------------------------------------------------------
(* Inputs *)

Vals == (-MaxVal)..MaxVal
SeriesOfLen(n) == [1..n -> Vals]
Series == UNION {SeriesOfLen(n) : n \in 0..MaxN}
\* lags on both sides of the defined range 0..N-2
Lags == (-2)..(MaxN + 1)

\* the floating-point numbers m / 2^(FloatBits-1), m = 1..2^FloatBits: the
\* sampling increments and timescales handed to effective_sample_size
FloatGrid == {Rat(m, Pow2(FloatBits - 1)) : m \in 1..Pow2(FloatBits)}

\* the gap-filled series of a station: at least two values
StationSeries == UNION {SeriesOfLen(n) : n \in 2..(MaxN + 1)}

\* flatten_dframe: monthly timestamps, years + months / 12
Timestamps(n) == [i \in 1..n |-> Rat(i - 1, 12)]

\* the bags of M simulated slopes: a slope p takes the bulk of the trials,
\* a lower slope a and a higher slope b one trial or MaxFew trials each
\* (a = p or b = p: no such slope)
SlopeVals == 0..MaxSlope
BagOf(a, f1, p, f2, b, M) ==
    [v \in SlopeVals |->
        IF v = p THEN M - f1 - f2
        ELSE IF v = a THEN f1
        ELSE IF v = b THEN f2 ELSE 0]
FewAt(v, p) == IF v = p THEN {0} ELSE {1, MaxFew}
BagsAround(p, M) ==
    UNION {{BagOf(a, f1, p, f2, b, M) : f1 \in FewAt(a, p), f2 \in FewAt(b, p)} :
              a \in {v \in SlopeVals : v <= p}, b \in {v \in SlopeVals : v >= p}}
SimlBags(M) == UNION {BagsAround(p, M) : p \in SlopeVals}

\* the gap-filled anomalies of station i of calc_trend (the files are fixed)
StationAnoms(i) == <<0, 0, i>>

Coords == 0..MaxCoord
DataMatrices == UNION {[1..n -> Coords \X Coords] : n \in 0..MaxObs}

-----------------------------------------------------------------------------
(* One call of C *)

AcvIdle == acv_pc = "idle" /\ acv_k = 0 /\ acv_y = <<>> /\ acv_ret = NoRet

AcvInit ==
    /\ acv_pc = "call"
    /\ acv_k \in Lags
    /\ acv_y \in Series
    /\ acv_ret = NoRet

CallC ==
    /\ acv_pc = "call"
    /\ acv_ret' = C(acv_k, acv_y)
    /\ acv_pc' = "ret"
    /\ UNCHANGED <<acv_k, acv_y, tsVars, essVars, teVars, ctVars, mcVars, itsVars>>

-----------------------------------------------------------------------------
(* One call of TheilSen_Cummins *)

TsIdle == ts_pc = "idle" /\ ts_data = <<>> /\ ts_ret = TsPending

TsInit ==
    /\ ts_pc = "call"
    /\ ts_data \in DataMatrices
    /\ ts_ret = TsPending

CallTheilSen ==
    /\ ts_pc = "call"
    /\ ts_ret' = TheilSen_Cummins(AsNumbers(ts_data))
    /\ ts_pc' = "ret"
    /\ UNCHANGED <<ts_data, acvVars, essVars, teVars, ctVars, mcVars, itsVars>>

-----------------------------------------------------------------------------
(* Calls of integral_timescale_discrete *)

ItsIdle ==
    /\ its_pc = "idle" /\ its_args = <<>>
    /\ its_ret = <<>> /\ its_exact = <<>>

\* lag steps of two significant bits, series of at least two values
LagSteps == {Rat(1, 8), Rat(3, 4)}
ItsInit ==
    /\ its_pc = "call"
    /\ its_args \in [dtau : LagSteps,
                     y : UNION {[1..n -> 0..MaxVal] : n \in 2..MaxN},
                     m : 1..MaxLagVals, p : 2..MaxShift]
    /\ its_ret = <<>> /\ its_exact = <<>>

\* the call on y and the call on y + c
CallItsShifted ==
    /\ its_pc = "call"
    /\ its_ret' = [kind |-> "shift",
                   first |-> FlIts(its_args.dtau, its_args.y, its_args.m),
                   second |-> FlIts(its_args.dtau,
                                    Shifted(its_args.y, its_args.p), its_args.m)]
    /\ its_exact' =
          [first |-> integral_timescale_discrete(its_args.dtau, its_args.y, its_args.m),
           second |-> integral_timescale_discrete(its_args.dtau,
                          Shifted(its_args.y, its_args.p), its_args.m)]
    /\ its_pc' = "ret"
    /\ UNCHANGED <<its_args, acvVars, tsVars, essVars, teVars, ctVars, mcVars>>

\* the call with dtau and the call with s * dtau
CallItsScaled ==
    /\ its_pc = "call"
    /\ its_ret' = [kind |-> "scale",
                   first |-> FlIts(its_args.dtau, its_args.y, its_args.m),
                   second |-> FlIts(Fl(RMul(RInt(its_args.p), its_args.dtau)),
                                    its_args.y, its_args.m)]
    /\ its_exact' =
          [first |-> integral_timescale_discrete(its_args.dtau, its_args.y, its_args.m),
           second |-> integral_timescale_discrete(
                          RMul(RInt(its_args.p), its_args.dtau),
                          its_args.y, its_args.m)]
    /\ its_pc' = "ret"
    /\ UNCHANGED <<its_args, acvVars, tsVars, essVars, teVars, ctVars, mcVars>>

-----------------------------------------------------------------------------
(* One call of effective_sample_size *)

EssIdle == ess_pc = "idle" /\ ess_args = <<>> /\ ess_ret = NaN

EssInit ==
    /\ ess_pc = "call"
    /\ ess_args \in (1..MaxCount) \X FloatGrid \X FloatGrid
    /\ ess_ret = NaN

CallEss ==
    /\ ess_pc = "call"
    /\ ess_ret' = effective_sample_size(RInt(ess_args[1]), ess_args[2], ess_args[3])
    /\ ess_pc' = "ret"
    /\ UNCHANGED <<ess_args, acvVars, tsVars, teVars, ctVars, mcVars, itsVars>>

-----------------------------------------------------------------------------
(* main_te, trend_estimation.py lines 181-270 *)

TeIdle ==
    /\ te_pc = "idle" /\ te_cfg = <<>> /\ te_i = 0 /\ te_ESS = NaN
    /\ df_res_te = <<>>

TeInit ==
    /\ te_pc = "loop"
    /\ te_cfg \in [compute_cis : BOOLEAN, delta_tau_factor : 1..2,
                   nlag_vals_to_use : 1..MaxLagVals]
    /\ te_i = 0
    /\ te_ESS = NaN
    /\ df_res_te = <<>>

\* lines 238-259: the row of a station when compute_cis is set, or the
\* exception that ends the run
CiRow(xx, yy, NN, N_star) ==
    LET res == OlsFit(xx, yy)
        SEE == standard_error_of_estimate(yy, res.fittedvalues)
        SDX == std_dev_x(xx)
    IN  IF SEE.err # "none" THEN SEE
        ELSE IF SDX.err # "none" THEN SDX
        ELSE Ok([NN |-> NN, df |-> NN - 2, N_star |-> N_star,
                 slope100 |-> RMul(res.slope, RInt(100)),
                 \* res.conf_int: the limit of the fit on N - 2 degrees of freedom
                 CI_original |-> [s_eta2 |-> SEE.val, tdf |-> RInt(NN - 2),
                                  root |-> RInt(NN - 1), s_x2 |-> SDX.val],
                 CI_effective |-> conf_limit(SEE.val, N_star, SDX.val)])

\* lines 225-234: ESS of a station, or the exception of the timescale
StationEss(y, cfg) ==
    LET time_step == RSub(Timestamps(Len(y))[2], Timestamps(Len(y))[1])
        delta_tau == RMul(RInt(cfg.delta_tau_factor), time_step)
        it == integral_timescale_discrete(delta_tau, y, cfg.nlag_vals_to_use)
    IN  IF it.err # "none" THEN it
        ELSE Ok(effective_sample_size(RInt(Len(y)), time_step, it.val))

\* lines 234-261: N_star and the row
StationRow(y, cfg, ESS) ==
    LET N_star == RSub(ESS, RInt(2))
    IN  IF cfg.compute_cis
        THEN CiRow(Timestamps(Len(y)), [i \in 1..Len(y) |-> RInt(y[i])], Len(y), N_star)
        ELSE Ok([NN |-> Len(y), df |-> Len(y) - 2, N_star |-> N_star])

\* one pass of the loop of line 212 on the series y of the station's file;
\* the export of lines 263-269 follows the last pass
TeStation(y) ==
    /\ te_pc = "loop"
    /\ te_i < NStationsTe
    /\ \E ess \in {StationEss(y, te_cfg)} :
       \E row \in {IF ess.err = "none" THEN StationRow(y, te_cfg, ess.val) ELSE ess} :
           IF row.err # "none"
           THEN /\ te_pc' = "failed"
                /\ UNCHANGED <<te_i, te_ESS, df_res_te>>
           ELSE /\ df_res_te' = Append(df_res_te, row.val)
                /\ te_ESS' = ess.val
                /\ te_i' = te_i + 1
                /\ te_pc' = IF te_i + 1 = NStationsTe THEN "done" ELSE "loop"
    /\ UNCHANGED <<te_cfg, acvVars, tsVars, essVars, ctVars, mcVars, itsVars>>

MainTeStep == \E y \in StationSeries : TeStation(y)

-----------------------------------------------------------------------------
(* calc_trend, trend_estimation.py lines 495-619 *)

CtIdle ==
    /\ ct_pc = "idle" /\ ct_cfg = <<>> /\ ct_i = 0 /\ ct_siml_trends = <<>>
    /\ count = <<>> /\ bin_edges = <<>>
    /\ temp_conf_int_low = Unbound /\ temp_conf_int_high = Unbound
    /\ temp_conf_int_95 = Unbound /\ ct_set = <<>> /\ df_res = <<>>

\* lines 495-524: the arguments and the empty result frame; no local of the
\* loop is assigned yet
CtInit ==
    /\ ct_pc = "loop"
    \* SmallSiml trials with each backend, and one trial fewer (a multiple of
    \* 40, of which 2.5% is a whole number of trials) with the library one
    /\ ct_cfg \in [max_siml : {SmallSiml - 1, SmallSiml}, sen_flag : 0..2]
    /\ ct_cfg.max_siml = SmallSiml \/ ct_cfg.sen_flag = 1
    /\ ct_i = 0
    /\ ct_siml_trends = <<>>
    /\ count = <<>> /\ bin_edges = <<>>
    /\ temp_conf_int_low = Unbound /\ temp_conf_int_high = Unbound
    /\ temp_conf_int_95 = Unbound /\ ct_set = <<>> /\ df_res = <<>>

\* the slope of sklearn's TheilSenRegressor on one predictor, taken as the
\* median of the pairwise slopes
LibTheilSenSlope(x, y) == Median(FiniteSlopes(SlopeMatrix(Rows(x, y)), Len(x)))

\* lines 590-605: the row [trend_century, ci_century] of a station.  The
\* least-squares branch takes its limit from the fit's own interval, which
\* the model does not evaluate.
ResultRow(sen_flag, xx, yy, conf95) ==
    IF sen_flag = 1
    THEN [trend_century |-> RMul(LibTheilSenSlope(xx, yy), RInt(100)),
          ci_century |-> [from |-> "monte_carlo", val |-> RMul(conf95, RInt(100))]]
    ELSE IF sen_flag = 2
    THEN [trend_century |-> RMul(TheilSen_Cummins(Rows(xx, yy)).m, RInt(100)),
          ci_century |-> [from |-> "monte_carlo", val |-> RMul(conf95, RInt(100))]]
    ELSE [trend_century |-> RMul(OlsFit(xx, yy).slope, RInt(100)),
          ci_century |-> [from |-> "fit.conf_int", val |-> NaN]]

\* one pass of the loop of line 527, bag being the slopes that
\* monte_carlo_trend returned for the station; the export of lines 610-618
\* follows the last pass
CtStation(bag) ==
    /\ ct_pc = "loop"
    /\ ct_i < NStations
    /\ \E cnt \in {HistCount(bag, NBins(ct_cfg.max_siml))} :
       \E edges \in {HistEdges(bag, NBins(ct_cfg.max_siml))} :
       \E N \in {Cdf(cnt)} :
       \E low \in {NewLow(temp_conf_int_low, N, edges)} :
       \E high \in {NewHigh(temp_conf_int_high, N, edges)} :
       \E hw \in {HalfWidth(low, high)} :
          /\ ct_siml_trends' = bag
          /\ count' = cnt
          /\ bin_edges' = edges
          /\ temp_conf_int_low' = low
          /\ temp_conf_int_high' = high
          /\ ct_set' = [low |-> NewLow(Unbound, N, edges) # Unbound,
                        high |-> NewHigh(Unbound, N, edges) # Unbound]
          /\ IF hw.err # "none"
             THEN /\ ct_pc' = "failed"
                  /\ UNCHANGED <<ct_i, temp_conf_int_95, df_res>>
             ELSE /\ temp_conf_int_95' = hw.val
                  /\ df_res' = Append(df_res,
                         ResultRow(ct_cfg.sen_flag,
                                   Timestamps(Len(StationAnoms(ct_i))),
                                   [i \in 1..Len(StationAnoms(ct_i)) |->
                                       RInt(StationAnoms(ct_i)[i])],
                                   hw.val))
                  /\ ct_i' = ct_i + 1
                  /\ ct_pc' = IF ct_i + 1 = NStations THEN "done" ELSE "loop"
    /\ UNCHANGED <<ct_cfg, acvVars, tsVars, essVars, teVars, mcVars, itsVars>>

CalcTrendStep == \E bag \in SimlBags(ct_cfg.max_siml) : CtStation(bag)

-----------------------------------------------------------------------------
(* monte_carlo_trend, trend_estimation.py lines 370-472.  The series have
   1, 2 or 4 points, whose roots of unity are powers of i, and the phases
   drawn are whole quarter turns, so that the transforms are exact.  The
   factor sqrt(2) of line 423 is carried as the unit of the surrogate and of
   the slopes fitted to it.  The diagnostics mean_spec and siml_acvf, which
   no slope depends on, are left out. *)

\* complex numbers: pairs <<re, im>> of numbers
CPlus(a, b) == <<RAdd(a[1], b[1]), RAdd(a[2], b[2])>>
CTimes(z, r) == <<RMul(z[1], r), RMul(z[2], r)>>
\* z * i^q
Turn(z, q) ==
    CASE q % 4 = 0 -> z
      [] q % 4 = 1 -> <<RNeg(z[2]), z[1]>>
      [] q % 4 = 2 -> <<RNeg(z[1]), RNeg(z[2])>>
      [] OTHER -> <<z[2], RNeg(z[1])>>

RECURSIVE CSum(_)
CSum(zs) == IF zs = <<>> THEN <<Zero, Zero>> ELSE CPlus(Head(zs), CSum(Tail(zs)))

\* scipy's fft: X[k] = sum_j x[j] exp(-2 pi i j k / n), exp(-2 pi i / n)
\* being i^(3 * 4/n)
fft(x) ==
    [k \in 1..Len(x) |->
        CSum([j \in 1..Len(x) |->
                 Turn(x[j], 3 * (4 \div Len(x)) * (j - 1) * (k - 1))])]

\* scipy's ifft: x[j] = (1/n) sum_k X[k] exp(2 pi i j k / n)
ifft(X) ==
    [j \in 1..Len(X) |->
        CTimes(CSum([k \in 1..Len(X) |->
                        Turn(X[k], (4 \div Len(X)) * (j - 1) * (k - 1))]),
               Rat(1, Len(X)))]

ISqrt(n) == CHOOSE r \in 0..n : r * r <= n /\ (r + 1) * (r + 1) > n
IsSquare(n) == ISqrt(n) * ISqrt(n) = n
\* |re + i im|^2 of a complex number with integer parts
Norm2(z) == z[1][1] * z[1][1] + z[2][1] * z[2][1]
\* abs() of a complex number with integer parts and a whole modulus
CAbs(z) == RInt(ISqrt(Norm2(z)))

AsComplex(data) == [j \in 1..Len(data) |-> <<RInt(data[j]), Zero>>]

\* line 408: data_mag = abs(fft(data_record))
DataMag(data) == [k \in 1..Len(data) |-> CAbs(fft(AsComplex(data))[k])]

\* np.random.seed(s): the state the generator is reset to
Seed(s) == s % RngStates

\* the generator left as the caller left it
Reseed_none(g, trial) == g

\* line 414: np.random.seed(42 + nsim)
Reseed(g, trial) == Seed(42 + trial)

\* one step of the generator, and the sample in [0, 1) it gives, in quarters
RngStep(g) == (5 * g + 3) % RngStates
Quarter(g) == (4 * g) \div RngStates

\* np.random.random_sample(n) from state g: the samples and the state left
RECURSIVE random_sample(_, _)
random_sample(g, n) ==
    IF n = 0 THEN [out |-> <<>>, g |-> g]
    ELSE LET rest == random_sample(RngStep(g), n - 1)
         IN  [out |-> <<Quarter(RngStep(g))>> \o rest.out, g |-> rest.g]

\* lines 418-423: dummy_ts / sqrt(2) for the phases ph (2 pi ph / 4 each)
Surrogate(data_mag, ph) ==
    LET dummy_fft == [k \in 1..Len(data_mag) |-> Turn(<<data_mag[k], Zero>>, ph[k])]
    IN  [j \in 1..Len(data_mag) |-> ifft(dummy_fft)[j][1]]

\* line 434: res.coef_ of sklearn's fit when it has ncoef coefficients, the
\* first one the slope on the first predictor
LibCoef(x, y, ncoef) ==
    [c \in 1..ncoef |-> IF c = 1 THEN LibTheilSenSlope(x, y) ELSE Zero]

\* line 436: len(res.coef_ == 1), the length of the elementwise comparison,
\* taken as a truth value
CoefCheck(coef_) == Len([c \in 1..Len(coef_) |-> coef_[c] = RInt(1)]) # 0

\* the residual series: 1, 2 or 4 points whose spectrum has whole moduli
McSizes == {n \in 1..MaxPts : 4 % n = 0}
Residuals ==
    {d \in UNION {SeriesOfLen(n) : n \in McSizes} :
        \A k \in 1..Len(d) : IsSquare(Norm2(fft(AsComplex(d))[k]))}

McIdle ==
    /\ mc_pc = "idle" /\ mc_cfg = <<>> /\ nsim = 0 /\ rng = 0
    /\ res_coef = <<>> /\ siml_trends = <<>> /\ mc_warned = FALSE
    /\ mc_ret = "pending"

\* lines 390-410: the arguments and siml_trends = np.zeros(max_siml); the
\* generator is in the state the caller left it in
McInit ==
    /\ mc_pc = "loop"
    /\ mc_cfg \in [max_siml : 1..MaxTrials, sen_flag : 0..2,
                   data_record : Residuals]
    \* a single point is handed to the from-scratch backend only: what
    \* statsmodels and sklearn make of one observation is not modelled
    /\ Len(mc_cfg.data_record) >= 2 \/ mc_cfg.sen_flag = 2
    /\ nsim = 0
    /\ rng \in 0..(RngStates - 1)
    /\ res_coef = <<>>
    /\ siml_trends = [t \in 1..mc_cfg.max_siml |-> Zero]
    /\ mc_warned = FALSE
    /\ mc_ret = "pending"

\* lines 412-463: one trial; ncoef is the number of coefficients the library
\* fit returns
McTrial(ncoef) ==
    /\ mc_pc = "loop"
    /\ nsim < mc_cfg.max_siml
    /\ \E time \in {Timestamps(Len(mc_cfg.data_record))} :
       \E draw \in {random_sample(Reseed(rng, nsim), Len(mc_cfg.data_record))} :
       \E dummy_ts \in {Surrogate(DataMag(mc_cfg.data_record), draw.out)} :
          /\ rng' = draw.g
          /\ IF mc_cfg.sen_flag = 1
             THEN \E coef_ \in {LibCoef(time, dummy_ts, ncoef)} :
                    /\ res_coef' = coef_
                    /\ IF CoefCheck(coef_)
                       THEN /\ siml_trends' =
                                  [siml_trends EXCEPT ![nsim + 1] = coef_[1]]
                            /\ nsim' = nsim + 1
                            /\ UNCHANGED <<mc_pc, mc_warned, mc_ret>>
                       ELSE /\ mc_warned' = TRUE
                            /\ mc_ret' = "None"
                            /\ mc_pc' = "aborted"
                            /\ UNCHANGED <<siml_trends, nsim>>
             ELSE IF mc_cfg.sen_flag = 2
             \* line 443: TheilSen_Cummins(...)[0]; None[0] raises TypeError
             THEN \E fit \in {TheilSen_Cummins(Rows(time, dummy_ts))} :
                    /\ ts_ret' = fit
                    /\ IF fit.kind = "None"
                       THEN /\ mc_ret' = "TypeError"
                            /\ mc_pc' = "raised"
                            /\ UNCHANGED <<siml_trends, nsim>>
                       ELSE /\ siml_trends' =
                                  [siml_trends EXCEPT ![nsim + 1] = fit.m]
                            /\ nsim' = nsim + 1
                            /\ UNCHANGED <<mc_pc, mc_ret>>
                    /\ UNCHANGED <<res_coef, mc_warned>>
             ELSE /\ siml_trends' =
                        [siml_trends EXCEPT ![nsim + 1] = OlsFit(time, dummy_ts).slope]
                  /\ nsim' = nsim + 1
                  /\ UNCHANGED <<mc_pc, res_coef, mc_warned, mc_ret>>
    /\ mc_cfg.sen_flag # 2 => UNCHANGED ts_ret
    /\ UNCHANGED <<mc_cfg, ts_pc, ts_data, acvVars, essVars, teVars, ctVars, itsVars>>

MonteCarloTrial ==
    \E ncoef \in (IF mc_cfg.sen_flag = 1 THEN 0..MaxCoef ELSE {1}) : McTrial(ncoef)

\* lines 465-472: the return after the last trial
MonteCarloReturn ==
    /\ mc_pc = "loop"
    /\ nsim = mc_cfg.max_siml
    /\ mc_ret' = "arrays"
    /\ mc_pc' = "returned"
    /\ UNCHANGED <<mc_cfg, nsim, rng, res_coef, siml_trends, mc_warned,
                   acvVars, tsVars, essVars, teVars, ctVars, itsVars>>

-----------------------------------------------------------------------------
(* Specifications *)

Init == CtInit /\ AcvIdle /\ TsIdle /\ EssIdle /\ TeIdle /\ McIdle /\ ItsIdle
Next == CalcTrendStep
Spec == Init /\ [][Next]_vars

InitAcv == AcvInit /\ TsIdle /\ EssIdle /\ TeIdle /\ CtIdle /\ McIdle /\ ItsIdle
NextAcv == CallC
SpecAcv == InitAcv /\ [][NextAcv]_vars

InitTs == TsInit /\ AcvIdle /\ EssIdle /\ TeIdle /\ CtIdle /\ McIdle /\ ItsIdle
NextTs == CallTheilSen
SpecTs == InitTs /\ [][NextTs]_vars

InitEss == EssInit /\ AcvIdle /\ TsIdle /\ TeIdle /\ CtIdle /\ McIdle /\ ItsIdle
NextEss == CallEss
SpecEss == InitEss /\ [][NextEss]_vars

InitTe == TeInit /\ AcvIdle /\ TsIdle /\ EssIdle /\ CtIdle /\ McIdle /\ ItsIdle
NextTe == MainTeStep
SpecTe == InitTe /\ [][NextTe]_vars

InitIts == ItsInit /\ AcvIdle /\ TsIdle /\ EssIdle /\ TeIdle /\ CtIdle /\ McIdle
NextIts == CallItsShifted \/ CallItsScaled
SpecIts == InitIts /\ [][NextIts]_vars

InitMc == McInit /\ AcvIdle /\ TsIdle /\ EssIdle /\ TeIdle /\ CtIdle /\ ItsIdle
NextMc == MonteCarloTrial \/ MonteCarloReturn
SpecMc == InitMc /\ [][NextMc]_vars

-----------------------------------------------------------------------------
(* Claims about C *)

\* the deviations scaled by N: N*y[i] - sum(y), an integer
Dev(y, i) == Len(y) * y[i] - SeqSum(y)

RECURSIVE LagSum(_, _, _)
\* sum over i = 1..n of Dev(y, i) * Dev(y, i + k)
LagSum(n, k, y) ==
    IF n = 0 THEN 0 ELSE Dev(y, n) * Dev(y, n + k) + LagSum(n - 1, k, y)

\* C6: for a series of length N >= 2 and a lag 0 <= k < N-1, C(k, y) is the
\* sum over i = 0..N-k-1 of (y[i] - mean)(y[i+k] - mean) divided by N-1-k,
\* mean being the mean of the whole series; C(0, y) is the sum of squared
\* deviations divided by N-1.
C6_Autocovariance ==
    (acv_pc = "ret" /\ Len(acv_y) >= 2 /\ acv_k >= 0 /\ acv_k < Len(acv_y) - 1)
        => /\ acv_ret.err = "none"
           /\ acv_ret.val = Rat(LagSum(Len(acv_y) - acv_k, acv_k, acv_y),
                                Len(acv_y) * Len(acv_y) * (Len(acv_y) - 1 - acv_k))

C6_Witness ==
    /\ acv_pc = "ret" /\ Len(acv_y) = 3 /\ acv_k = 1
    /\ acv_ret.err = "none" /\ acv_ret.val # Zero

\* C7 as stated: every call with k >= N-1 or k < 0 fails, so no value is
\* returned for a lag outside 0..N-2.
C7_Original ==
    (acv_pc = "ret" /\ (acv_k >= Len(acv_y) - 1 \/ acv_k < 0))
        => acv_ret.err # "none"

\* C7 amended: on a series of length N, a call with k = N-1 >= 0 fails on
\* the division by zero and a call with negative k fails on an index out of
\* range; a call with k >= N does not fail: its loop is empty and it
\* returns zero.
C7_Amended ==
    acv_pc = "ret" =>
        /\ (acv_k = Len(acv_y) - 1 /\ acv_k >= 0)
              => acv_ret.err = "ZeroDivisionError"
        /\ acv_k < 0 => acv_ret.err = "IndexError"
        /\ acv_k >= Len(acv_y) => acv_ret = Ok(Zero)

C7_Witness ==
    /\ acv_pc = "ret" /\ acv_k >= Len(acv_y) /\ acv_ret = Ok(Zero)

-----------------------------------------------------------------------------
(* Claims about TheilSen_Cummins *)

\* candidate slopes and intercepts of a line through points of the grid
LineParams ==
    {Rat(p, q) : p \in (-(MaxCoord * MaxCoord))..(MaxCoord * MaxCoord), q \in 1..MaxCoord}

OnLine(data, a, b) ==
    \A i \in 1..Len(data) : RInt(data[i][2]) = RAdd(RMul(a, RInt(data[i][1])), b)

DistinctX(data) == \E i, j \in 1..Len(data) : data[i][1] # data[j][1]

\* the slopes of the pairs i < j of different x, in the order of the pairs
RECURSIVE PairSlopes(_, _, _)
PairSlopes(data, i, j) ==
    IF i > Len(data) THEN <<>>
    ELSE IF j > Len(data) THEN PairSlopes(data, i + 1, i + 2)
    ELSE (IF data[i][1] # data[j][1]
          THEN <<Rat(data[j][2] - data[i][2], data[j][1] - data[i][1])>>
          ELSE <<>>) \o PairSlopes(data, i, j + 1)

\* the intercept of the line of slope a through the first observation: the
\* only b for which the data can lie on y = a*x + b
InterceptOf(data, a) == {RSub(RInt(data[1][2]), RMul(a, RInt(data[1][1])))}

\* C10 as stated: on every input of at least 2 observations with
\* y[i] = a*x[i] + b exactly, the fit returns slope a and intercept b.
C10_Original ==
    (ts_pc = "ret" /\ Len(ts_data) >= 2) =>
        \A a \in LineParams : \A b \in InterceptOf(ts_data, a) :
            OnLine(ts_data, a, b) => ts_ret.m = a /\ ts_ret.bb = b

\* C10 amended: on every input of at least 2 observations, two of them of
\* different x, with y[i] = a*x[i] + b exactly, the fit returns slope a and
\* intercept b; the slope of any fit is the median of the pairwise slopes
\* over the pairs i < j of different x, pairs of equal x and the pair of an
\* observation with itself being discarded.
C10_Amended ==
    (ts_pc = "ret" /\ Len(ts_data) >= 2) =>
        /\ ts_ret.kind = "fit"
        /\ ts_ret.m = Median(PairSlopes(ts_data, 1, 2))
        /\ DistinctX(ts_data) =>
              \A a \in LineParams : \A b \in InterceptOf(ts_data, a) :
                  OnLine(ts_data, a, b) => ts_ret.m = a /\ ts_ret.bb = b

C10_Witness ==
    /\ ts_pc = "ret" /\ Len(ts_data) = 3 /\ DistinctX(ts_data)
    /\ \E i, j \in 1..3 : i # j /\ ts_data[i][1] = ts_data[j][1]
    /\ \E a \in LineParams : \E b \in InterceptOf(ts_data, a) :
          a # Zero /\ OnLine(ts_data, a, b) /\ ts_ret.m = a /\ ts_ret.bb = b

-----------------------------------------------------------------------------
(* Claims about effective_sample_size and main_te *)

\* C9: for every sample count N, sampling increment dt and timescale
\* T >= dt, effective_sample_size(N, dt, T) returns N* <= N.
C9_EssAtMostN ==
    (ess_pc = "ret" /\ RLeq(ess_args[2], ess_args[3]))
        => RLeq(ess_ret, RInt(ess_args[1]))

\* C8: the analytic confidence limit of a station uses N* - 2 degrees of
\* freedom for the t critical value and sqrt(N* - 1) in the denominator,
\* N* being the effective sample size returned for that station.
C8_ConfLimitUsesEss ==
    (te_cfg # <<>> /\ te_cfg.compute_cis /\ df_res_te # <<>>) =>
        LET row == df_res_te[Len(df_res_te)]
        IN  /\ row.CI_effective.tdf = RSub(te_ESS, RInt(2))
            /\ row.CI_effective.root = RSub(te_ESS, RInt(1))

-----------------------------------------------------------------------------
(* Claims about the percentile extractor of calc_trend *)

\* a pass of the station loop has run and left its histogram
Passed == ct_pc \in {"loop", "done", "failed"} /\ count # <<>>
\* the last pass reported a confidence limit
Reported == ct_pc \in {"loop", "done"} /\ count # <<>>

\* the trials in the bins j < k of the last histogram
TrialsBefore(k) == SeqSum([j \in 1..k |-> count[j]])

\* CDF[k] < 0.025, 0.025 <= CDF[k], CDF[k] <= 0.975 and 0.975 < CDF[k] for
\* CDF[k] = TrialsBefore(k) / M, in integers
Below025(k) == 1000 * TrialsBefore(k) < 25 * ct_cfg.max_siml
AtLeast025(k) == 1000 * TrialsBefore(k) >= 25 * ct_cfg.max_siml
AtMost975(k) == 1000 * TrialsBefore(k) <= 975 * ct_cfg.max_siml
Above975(k) == 1000 * TrialsBefore(k) > 975 * ct_cfg.max_siml

\* the bins n in 0..nbins-2 that straddle a level
LowBins == {n \in 0..(Len(count) - 2) : Below025(n) /\ AtLeast025(n + 1)}
HighBins == {n \in 0..(Len(count) - 2) : AtMost975(n) /\ Above975(n + 1)}

\* the midpoint of bin n of the last histogram
BinMid(n) == RDiv(RAdd(bin_edges[n + 1], bin_edges[n + 2]), RInt(2))

C3_OwnSlopesOnly ==
    Reported =>
        /\ \E n \in LowBins : temp_conf_int_low = BinMid(n)
        /\ \E n \in HighBins : temp_conf_int_high = BinMid(n)

\* C5: when no adjacent bin pair of a station's histogram straddles a level,
\* the station's computation fails and no confidence limit is reported for
\* that station.
C5_NoStraddleFails ==
    (Passed /\ (LowBins = {} \/ HighBins = {})) =>
        /\ ct_pc = "failed"
        /\ Len(df_res) = ct_i

-----------------------------------------------------------------------------
(* Claims about monte_carlo_trend *)

\* the phases of trial t: the samples that follow a reset to seed 42 + t
PhasesOf(t) == random_sample(Seed(42 + t), Len(mc_cfg.data_record)).out

\* a is the slope of trial t as a function of t, the timestamps, the
\* residual and the backend selector
IsSlopeOf(a, t) ==
    \E time \in {Timestamps(Len(mc_cfg.data_record))} :
    \E ts \in {Surrogate(DataMag(mc_cfg.data_record), PhasesOf(t))} :
        a = IF mc_cfg.sen_flag = 0 THEN OlsFit(time, ts).slope
            ELSE Median(FiniteSlopes(SlopeMatrix(Rows(time, ts)), Len(time)))

\* C2: every trial t run so far stored in siml_trends[t] the slope that
\* follows from seed 42 + t, the timestamps, the residual and the backend
\* selector alone, whatever state the generator was in before the run and
\* before the trial; the slots of the trials not run hold their initial zero.
C2_SeededTrials ==
    mc_pc \in {"loop", "returned", "aborted", "raised"} =>
        \A t \in 0..(mc_cfg.max_siml - 1) :
            IF t < nsim THEN IsSlopeOf(siml_trends[t + 1], t)
            ELSE siml_trends[t + 1] = Zero

C2_Witness ==
    /\ mc_pc = "returned"
    /\ nsim >= 2
    /\ siml_trends[1] # siml_trends[2]
    /\ rng # Seed(42)

\* C1: with the library Theil-Sen backend, a trial whose fit returned more
\* than one coefficient aborted the run: the trial recorded no slope, the
\* coefficient vector was printed and nothing was returned to the caller.
C1_MultiCoefAborts ==
    (mc_pc # "idle" /\ mc_cfg.sen_flag = 1 /\ Len(res_coef) > 1) =>
        /\ mc_pc = "aborted"
        /\ mc_warned
        /\ mc_ret = "None"
        /\ nsim < mc_cfg.max_siml
        /\ siml_trends[nsim + 1] = Zero

\* C11: a call of the from-scratch backend on fewer than 2 observations
\* printed the failure and returned no fit (no slope, intercept or slope
\* matrix), and only such a call did; in monte_carlo_trend with sen_flag=2
\* that call ended the run, with no slope recorded for the trial.
C11_TooFewObservations ==
    (mc_pc \in {"loop", "returned", "raised"} /\ mc_cfg.sen_flag = 2
        /\ ts_ret # TsPending) =>
        /\ (Len(mc_cfg.data_record) < 2) <=> (ts_ret.kind = "None")
        /\ ts_ret.kind = "None" =>
              /\ ts_ret.printed /\ ts_ret.m = NaN /\ ts_ret.bb = NaN
              /\ ts_ret.CC = <<>>
              /\ mc_pc = "raised"
              /\ mc_ret = "TypeError"
              /\ \A t \in 1..mc_cfg.max_siml : siml_trends[t] = Zero
        /\ ts_ret.kind = "fit" => mc_pc # "raised" /\ siml_trends[nsim] = ts_ret.m

C11_Witness ==
    /\ mc_pc = "raised" /\ nsim = 0 /\ mc_cfg.max_siml > 1
    /\ Len(mc_cfg.data_record) = 1 /\ mc_cfg.data_record[1] # 0
    /\ ts_ret.kind = "None" /\ ts_ret.printed

-----------------------------------------------------------------------------
(* Claims about integral_timescale_discrete *)

NonZeroVariance(y) == \E i, j \in 1..Len(y) : y[i] # y[j]
IsPowerOfTwo(n) == \E e \in 0..n : Pow2(e) = n

\* C12 as stated: on a series of non-zero variance the call on y + c returns
\* what the call on y returns, and the call with s * dtau returns s times
\* what the call with dtau returns.
C12_Original ==
    (its_pc = "ret" /\ NonZeroVariance(its_args.y)) =>
        its_ret.second =
            IF its_ret.kind = "shift" THEN its_ret.first
            ELSE FlTimesResult(RInt(its_args.p), its_ret.first)

\* C12 amended: the two equalities hold for the values the statements of
\* the function define in exact arithmetic; as computed in floating point,
\* the call with s * dtau returns exactly s times the call with dtau when s
\* is a power of two (other factors, and shifts, agree up to rounding only).
C12_Amended ==
    (its_pc = "ret" /\ NonZeroVariance(its_args.y)) =>
        /\ its_exact.second =
              IF its_ret.kind = "shift" THEN its_exact.first
              ELSE TimesResult(RInt(its_args.p), its_exact.first)
        /\ (its_ret.kind = "scale" /\ IsPowerOfTwo(its_args.p)) =>
              its_ret.second = FlTimesResult(RInt(its_args.p), its_ret.first)

C12_Witness ==
    /\ its_pc = "ret" /\ NonZeroVariance(its_args.y) /\ its_args.m >= 2
    /\ its_ret.kind = "shift"
    /\ its_exact.first.err = "none" /\ its_exact.first.val # Zero
    /\ its_exact.second = its_exact.first
    /\ its_ret.second # its_ret.first

-----------------------------------------------------------------------------
(* Claims about the result rows and the scan of calc_trend *)

\* C13: whatever the backend selector, the value recorded for a station in
\* the column 'Monte Carlo confidence limit [deg C/century]' is 100 times
\* the half-width that the percentile extractor derived in the station's
\* pass.
C13_McLimitColumn ==
    Reported =>
        /\ df_res[Len(df_res)].ci_century.from = "monte_carlo"
        /\ df_res[Len(df_res)].ci_century.val = RMul(temp_conf_int_95, RInt(100))

\* the trials in the last bin of the last histogram
LastBin == count[Len(count)]

\* C14: in a pass, each bound is assigned for at most one bin index; the
\* upper bound is assigned exactly when the last bin holds strictly less
\* than 2.5% of the M slopes, the lower bound exactly when it holds at most
\* 97.5% of them; when both are assigned the lower bin index is at most the
\* upper one and the half-width is not negative.
C14_ScanAssignments ==
    Passed =>
        /\ Cardinality(LowBins) <= 1 /\ Cardinality(HighBins) <= 1
        /\ ct_set.low <=> LowBins # {}
        /\ ct_set.high <=> HighBins # {}
        /\ ct_set.high <=> 1000 * LastBin < 25 * ct_cfg.max_siml
        /\ ct_set.low <=> 1000 * LastBin <= 975 * ct_cfg.max_siml
        /\ (ct_set.low /\ ct_set.high) =>
              /\ \A n \in LowBins : \A m \in HighBins : n <= m
              /\ Reported
              /\ RLeq(Zero, temp_conf_int_95)

=============================================================================
